---------------------------- MODULE Spec2Model ----------------------------
(***************************************************************************)
(* The alternating disks problem of disks.hpp: the row of disks            *)
(* (disk_state), the result of a sort (sorted_disks) and the two sorting   *)
(* algorithms sort_left_to_right and sort_lawnmower, stepped one loop test *)
(* at a time, together with a caller that constructs rows, swaps disks of  *)
(* its own row, calls the sorters and compares rows.                       *)
(*                                                                         *)
(* A row is a sequence of colours; the source's index p (from 0) is the    *)
(* sequence's position p + 1.  assert() is compiled in: a failed assertion *)
(* ends the program (pc = "abort").                                        *)
(***************************************************************************)
EXTENDS Integers, Sequences, FiniteSets

\* Largest light_count the caller passes to the constructor.
MaxLight == 4

\* enum disk_color { DISK_LIGHT, DISK_DARK }, written as to_string prints it.
DISK_LIGHT == "L"
DISK_DARK == "D"

\* The two sorters.
Algs == {"ltr", "lawn"}

\* size_t arithmetic is modular.  The modulus stands for 2^64 at a width
\* TLC's integers hold; every index of the model is far below it, so a
\* wrapped difference is, as in the program, larger than any index.
SizeMod == 2^30

\* a - b on size_t.
USub(a, b) == IF a >= b THEN a - b ELSE a - b + SizeMod

VARIABLES
  colors,      \* the caller's disk_state: _colors of the row passed to a sorter
  other,       \* _colors of a second disk_state of the caller, for operator==
  eqAB,        \* what (row == other) returned: "none", "true" or "false"
  eqBA,        \* what (other == row) returned
  pc,          \* where the program is
  failure,     \* which assertion failed, "none" while none has
  lastOp,      \* the caller-level operation that completed last
  i,           \* the sorters' outer index i
  j,           \* the forward inner index j
  jBack,       \* the index j of sort_lawnmower's right-to-left loop
  swapCount,   \* the sorters' swapCount
  lightCount,  \* the sorters' lightCount
  totalCount,  \* the sorters' totalCount
  res          \* per sorter, the sorted_disks its last call returned

vars == <<colors, other, eqAB, eqBA, pc, failure, lastOp, i, j, jBack,
          swapCount, lightCount, totalCount, res>>

locals == <<i, j, jBack, swapCount, lightCount, totalCount>>
eqvars == <<other, eqAB, eqBA>>

-----------------------------------------------------------------------------
(* disk_state *)

\* disk_state with the loop started at index 0: dark at the even indices.
disk_state_DarkFirst(light_count) ==
  [p \in 1..(2 * light_count) |-> IF (p - 1) % 2 = 0 THEN DISK_DARK ELSE DISK_LIGHT]

\* The constructor's _colors: 2 * light_count disks, light at even indices
\* and dark at odd ones.
disk_state(light_count) ==
  [p \in 1..(2 * light_count) |-> IF (p - 1) % 2 = 1 THEN DISK_DARK ELSE DISK_LIGHT]

total_count(row) == Len(row)

dark_count(row) == total_count(row) \div 2

light_count(row) == dark_count(row)

is_index(row, p) == p >= 0 /\ p < total_count(row)

\* get(index), for an index that passed the assertion.
get(row, index) == row[index + 1]

\* std::swap(_colors[left_index], _colors[left_index + 1]).
swap(row, left_index) ==
  [row EXCEPT ![left_index + 1] = row[left_index + 2],
              ![left_index + 2] = row[left_index + 1]]

\* is_alternating's loop from index p on: for (i = p; i < size - 1; i += 2).
RECURSIVE AlternatingFrom(_, _)
AlternatingFrom(row, p) ==
  IF p < USub(total_count(row), 1)
  THEN IF get(row, p) # DISK_LIGHT \/ get(row, p + 1) # DISK_DARK
       THEN FALSE
       ELSE AlternatingFrom(row, p + 2)
  ELSE TRUE

is_alternating(row) == AlternatingFrom(row, 0)

\* is_sorted's loop from index p on: for (i = p; i < lightSize; i++).
RECURSIVE SortedFrom(_, _)
SortedFrom(row, p) ==
  IF p < light_count(row)
  THEN IF get(row, p) # DISK_LIGHT
       THEN FALSE
       ELSE IF get(row, p + light_count(row)) # DISK_DARK
            THEN FALSE
            ELSE SortedFrom(row, p + 1)
  ELSE TRUE

is_sorted(row) == SortedFrom(row, 0)

\* operator==: std::equal(_colors.begin(), _colors.end(), rhs._colors.begin())
\* walks the left row's length and never looks at the right row's length.
\* Reading past the end of a shorter right row is undefined: once the common
\* prefix agrees the comparison may come out either way.
EqualOutcomes(lhs, rhs) ==
  IF Len(rhs) >= Len(lhs)
  THEN {\A p \in 1..Len(lhs) : lhs[p] = rhs[p]}
  ELSE IF \E p \in 1..Len(rhs) : lhs[p] # rhs[p]
       THEN {FALSE}
       ELSE BOOLEAN

EqText(b) == IF b THEN "true" ELSE "false"

-----------------------------------------------------------------------------
(* sorted_disks *)

NoResult == [has |-> FALSE, after |-> <<>>, swap_count |-> 0]

\* sorted_disks(after, swap_count): _after is a copy of the row.
sorted_disks(after, swap_count) ==
  [has |-> TRUE, after |-> after, swap_count |-> swap_count]

-----------------------------------------------------------------------------
(* The bodies of the sorters' inner loops.  Each yields the row and the    *)
(* counter after the if statement, or ok = FALSE when an assertion of get  *)
(* or swap fails.                                                          *)

Failed(row, cnt, what) == [ok |-> FALSE, row |-> row, cnt |-> cnt, what |-> what]
Passed(row, cnt) == [ok |-> TRUE, row |-> row, cnt |-> cnt, what |-> "none"]

\* swap(left_index) with its two assertions, then swapCount++.
SwapAndCount(row, left_index, cnt) ==
  IF is_index(row, left_index) /\ is_index(row, left_index + 1)
  THEN Passed(swap(row, left_index), cnt + 1)
  ELSE Failed(row, cnt, "swap")

\* ForwardBody swapping every pair of unlike colours, light-dark ones too.
ForwardBody_AnyPair(row, p, cnt) ==
  IF ~is_index(row, p) THEN Failed(row, cnt, "get")
  ELSE IF ~is_index(row, p + 1) THEN Failed(row, cnt, "get")
  ELSE IF get(row, p) = get(row, p + 1) THEN Passed(row, cnt)
  ELSE SwapAndCount(row, p, cnt)

\* if (get(p) == DISK_DARK && get(p + 1) == DISK_LIGHT) { swap(p); swapCount++; }
\* The && evaluates get(p + 1) only when get(p) is dark.
ForwardBody(row, p, cnt) ==
  IF ~is_index(row, p) THEN Failed(row, cnt, "get")
  ELSE IF get(row, p) # DISK_DARK THEN Passed(row, cnt)
  ELSE IF ~is_index(row, p + 1) THEN Failed(row, cnt, "get")
  ELSE IF get(row, p + 1) # DISK_LIGHT THEN Passed(row, cnt)
  ELSE SwapAndCount(row, p, cnt)

\* BackwardBody without its swapCount++.
BackwardBody_NoCount(row, p, cnt) ==
  IF ~is_index(row, p) THEN Failed(row, cnt, "get")
  ELSE IF get(row, p) # DISK_LIGHT THEN Passed(row, cnt)
  ELSE IF ~is_index(row, USub(p, 1)) THEN Failed(row, cnt, "get")
  ELSE IF get(row, USub(p, 1)) # DISK_DARK THEN Passed(row, cnt)
  ELSE Passed(swap(row, USub(p, 1)), cnt)

\* if (get(p) == DISK_LIGHT && get(p - 1) == DISK_DARK) { swap(p - 1); swapCount++; }
\* The && evaluates get(p - 1) only when get(p) is light.
BackwardBody(row, p, cnt) ==
  IF ~is_index(row, p) THEN Failed(row, cnt, "get")
  ELSE IF get(row, p) # DISK_LIGHT THEN Passed(row, cnt)
  ELSE IF ~is_index(row, USub(p, 1)) THEN Failed(row, cnt, "get")
  ELSE IF get(row, USub(p, 1)) # DISK_DARK THEN Passed(row, cnt)
  ELSE SwapAndCount(row, USub(p, 1), cnt)

\* A sorter entered with its assertion compiled out or forgotten.
Precondition_NoAssert(row) == TRUE

\* assert(before.is_alternating())
Precondition(row) == is_alternating(row)

\* sort_left_to_right making the lawnmower's number of passes.
LtrOuterTest_Halved == i < lightCount \div 2

\* i < lightCount
LtrOuterTest == i < lightCount

\* The inner scan run one position further: j < totalCount - i.
LtrInnerTest_OneFurther == j < USub(totalCount, i)

\* j < totalCount - i - 1
LtrInnerTest == j < USub(USub(totalCount, i), 1)

\* i < lightCount / 2
LawnOuterTest == i < lightCount \div 2

\* j < totalCount - i
LawnForwardTest == j < USub(totalCount, i)

\* The right-to-left loop written j >= 0, which an unsigned j always passes.
LawnBackwardTest_Unsigned == jBack >= 0

\* j > i
LawnBackwardTest == jBack > i

\* The row a sorter's return statement copies into the result.
Returned(row) == row

\* Results that hold a reference to the caller's row instead of a copy.
ResultsAfterCallerSwap_Alias(r, row) ==
  [a \in Algs |-> IF r[a].has THEN [r[a] EXCEPT !.after = row] ELSE r[a]]

\* What an adjacent swap on the caller's row leaves in the results:
\* _after is a disk_state of its own, so nothing changes.
ResultsAfterCallerSwap(r, row) == r

-----------------------------------------------------------------------------
(* The caller *)

SortPcs == {"ltr_outer", "ltr_inner", "ltr_ret",
            "lawn_outer", "lawn_fwd", "lawn_inc", "lawn_bwd", "lawn_ret"}

Init ==
  /\ colors = <<>>
  /\ other = <<>>
  /\ eqAB = "none"
  /\ eqBA = "none"
  /\ pc = "start"
  /\ failure = "none"
  /\ lastOp = "none"
  /\ i = 0
  /\ j = 0
  /\ jBack = 0
  /\ swapCount = 0
  /\ lightCount = 0
  /\ totalCount = 0
  /\ res = [a \in Algs |-> NoResult]

Abort(what) ==
  /\ pc' = "abort"
  /\ failure' = what

\* disk_state s(n): the caller builds its row; assert(dark_count() > 0).
Construct(n) ==
  /\ pc \in {"start", "ready"}
  /\ IF dark_count(disk_state(n)) > 0
     THEN /\ colors' = disk_state(n)
          /\ pc' = "ready"
          /\ lastOp' = "construct"
          /\ UNCHANGED failure
     ELSE /\ Abort("ctor")
          /\ UNCHANGED <<colors, lastOp>>
  /\ UNCHANGED <<eqvars, locals, res>>

\* s.swap(p) by the caller, on the row it owns.
CallerSwap(p) ==
  /\ pc = "ready"
  /\ IF is_index(colors, p) /\ is_index(colors, p + 1)
     THEN /\ colors' = swap(colors, p)
          /\ res' = ResultsAfterCallerSwap(res, colors')
          /\ lastOp' = "swap"
          /\ UNCHANGED <<pc, failure>>
     ELSE /\ Abort("caller_swap")
          /\ UNCHANGED <<colors, res, lastOp>>
  /\ UNCHANGED <<eqvars, locals>>

\* The entry of a sorter: the assertion, then the locals.
Call(first) ==
  /\ pc = "ready"
  /\ IF Precondition(colors)
     THEN /\ pc' = first
          /\ swapCount' = 0
          /\ lightCount' = light_count(colors)
          /\ totalCount' = total_count(colors)
          /\ i' = 0
          /\ UNCHANGED <<failure, j, jBack>>
     ELSE /\ Abort("precondition")
          /\ UNCHANGED locals
  /\ UNCHANGED <<colors, eqvars, lastOp, res>>

CallLeftToRight == Call("ltr_outer")

CallLawnmower == Call("lawn_outer")

\* return sorted_disks(before, swapCount); the locals end with the call.
Return(a) ==
  /\ res' = [res EXCEPT ![a] = sorted_disks(Returned(colors), swapCount)]
  /\ pc' = "ready"
  /\ lastOp' = a
  /\ i' = 0
  /\ j' = 0
  /\ jBack' = 0
  /\ swapCount' = 0
  /\ lightCount' = 0
  /\ totalCount' = 0
  /\ UNCHANGED <<colors, eqvars, failure>>

\* One if statement of an inner loop, applied to the caller's row through
\* the const_cast, then `next`; a failed assertion ends the program.
Body(b, next) ==
  IF b.ok
  THEN /\ colors' = b.row
       /\ swapCount' = b.cnt
       /\ next
       /\ UNCHANGED failure
  ELSE /\ Abort(b.what)
       /\ UNCHANGED <<colors, locals>>

-----------------------------------------------------------------------------
(* sort_left_to_right *)

\* for (size_t i = 0; i < lightCount; i++): the test, and j = i + 1.
LtrOuter ==
  /\ pc = "ltr_outer"
  /\ IF LtrOuterTest
     THEN /\ j' = i + 1
          /\ pc' = "ltr_inner"
     ELSE /\ pc' = "ltr_ret"
          /\ UNCHANGED j
  /\ UNCHANGED <<colors, eqvars, failure, lastOp, i, jBack, swapCount,
                 lightCount, totalCount, res>>

\* for (auto j = i + 1; j < totalCount - i - 1; j++): the test, the body and
\* j++; when the test fails, the outer loop's i++.
LtrInner ==
  /\ pc = "ltr_inner"
  /\ IF LtrInnerTest
     THEN Body(ForwardBody(colors, j, swapCount),
               /\ j' = j + 1
               /\ UNCHANGED <<pc, i, jBack, lightCount, totalCount>>)
     ELSE /\ i' = i + 1
          /\ pc' = "ltr_outer"
          /\ UNCHANGED <<colors, failure, j, jBack, swapCount, lightCount, totalCount>>
  /\ UNCHANGED <<eqvars, lastOp, res>>

LtrReturn ==
  /\ pc = "ltr_ret"
  /\ Return("ltr")

-----------------------------------------------------------------------------
(* sort_lawnmower.  The for statement of line 195 closes at line 216: i++  *)
(* and the right-to-left loop are inside the left-to-right loop's body.    *)

\* for (size_t i = 0; i < lightCount / 2; i++): the test, and j = i + 1.
LawnOuter ==
  /\ pc = "lawn_outer"
  /\ IF LawnOuterTest
     THEN /\ j' = i + 1
          /\ pc' = "lawn_fwd"
     ELSE /\ pc' = "lawn_ret"
          /\ UNCHANGED j
  /\ UNCHANGED <<colors, eqvars, failure, lastOp, i, jBack, swapCount,
                 lightCount, totalCount, res>>

\* for (auto j = i + 1; j < totalCount - i; j++): the test and the if
\* statement at j; when the test fails, the outer loop's i++.
LawnForward ==
  /\ pc = "lawn_fwd"
  /\ IF LawnForwardTest
     THEN Body(ForwardBody(colors, j, swapCount),
               /\ pc' = "lawn_inc"
               /\ UNCHANGED <<i, j, jBack, lightCount, totalCount>>)
     ELSE /\ i' = i + 1
          /\ pc' = "lawn_outer"
          /\ UNCHANGED <<colors, failure, j, jBack, swapCount, lightCount, totalCount>>
  /\ UNCHANGED <<eqvars, lastOp, res>>

\* i++; then the right-to-left loop's j = totalCount - i - 1.
LawnInc ==
  /\ pc = "lawn_inc"
  /\ i' = i + 1
  /\ jBack' = USub(USub(totalCount, i'), 1)
  /\ pc' = "lawn_bwd"
  /\ UNCHANGED <<colors, eqvars, failure, lastOp, j, swapCount, lightCount,
                 totalCount, res>>

\* for (...; j > i; j--): the test, the if statement and j--; when the test
\* fails the left-to-right loop's body ends, with its j++.
LawnBackward ==
  /\ pc = "lawn_bwd"
  /\ IF LawnBackwardTest
     THEN Body(BackwardBody(colors, jBack, swapCount),
               /\ jBack' = USub(jBack, 1)
               /\ UNCHANGED <<pc, i, j, lightCount, totalCount>>)
     ELSE /\ j' = j + 1
          /\ pc' = "lawn_fwd"
          /\ UNCHANGED <<colors, failure, i, jBack, swapCount, lightCount, totalCount>>
  /\ UNCHANGED <<eqvars, lastOp, res>>

LawnReturn ==
  /\ pc = "lawn_ret"
  /\ Return("lawn")

-----------------------------------------------------------------------------

SortStep ==
  \/ LtrOuter
  \/ LtrInner
  \/ LtrReturn
  \/ LawnOuter
  \/ LawnForward
  \/ LawnInc
  \/ LawnBackward
  \/ LawnReturn

Next ==
  \/ \E n \in 0..MaxLight : Construct(n)
  \/ \E p \in 0..(2 * MaxLight - 1) : CallerSwap(p)
  \/ CallLeftToRight
  \/ CallLawnmower
  \/ SortStep

Spec == Init /\ [][Next]_vars

\* A sorter that has been called keeps running.
LiveSpec == Spec /\ WF_vars(SortStep)

-----------------------------------------------------------------------------
(* operator== on two rows the caller built and swapped. *)

EqInit ==
  /\ \E ka \in 1..MaxLight : colors = disk_state(ka)
  /\ \E kb \in 1..MaxLight : other = disk_state(kb)
  /\ eqAB = "none"
  /\ eqBA = "none"
  /\ pc = "ready"
  /\ failure = "none"
  /\ lastOp = "construct"
  /\ i = 0
  /\ j = 0
  /\ jBack = 0
  /\ swapCount = 0
  /\ lightCount = 0
  /\ totalCount = 0
  /\ res = [a \in Algs |-> NoResult]

\* a.swap(p), for a valid p: the comparisons made so far are of another row.
SwapRow(p) ==
  /\ is_index(colors, p) /\ is_index(colors, p + 1)
  /\ colors' = swap(colors, p)
  /\ eqAB' = "none"
  /\ eqBA' = "none"
  /\ UNCHANGED <<other, pc, failure, lastOp, locals, res>>

\* b.swap(p), for a valid p.
SwapOther(p) ==
  /\ is_index(other, p) /\ is_index(other, p + 1)
  /\ other' = swap(other, p)
  /\ eqAB' = "none"
  /\ eqBA' = "none"
  /\ UNCHANGED <<colors, pc, failure, lastOp, locals, res>>

\* a == b
CompareAB ==
  /\ eqAB = "none"
  /\ \E b \in EqualOutcomes(colors, other) : eqAB' = EqText(b)
  /\ UNCHANGED <<colors, other, eqBA, pc, failure, lastOp, locals, res>>

\* b == a
CompareBA ==
  /\ eqBA = "none"
  /\ \E b \in EqualOutcomes(other, colors) : eqBA' = EqText(b)
  /\ UNCHANGED <<colors, other, eqAB, pc, failure, lastOp, locals, res>>

EqNext ==
  \/ \E p \in 0..(2 * MaxLight - 2) : SwapRow(p)
  \/ \E p \in 0..(2 * MaxLight - 2) : SwapOther(p)
  \/ CompareAB
  \/ CompareBA

EqSpec == EqInit /\ [][EqNext]_vars

-----------------------------------------------------------------------------
(* Properties *)

\* Light count of a row of 2k disks.
HalfLen(row) == Len(row) \div 2

\* The first k disks are light and the last k are dark.
Grouped(row) ==
  /\ Len(row) = 2 * HalfLen(row)
  /\ \A p \in 1..HalfLen(row) : row[p] = DISK_LIGHT
  /\ \A p \in (HalfLen(row) + 1)..Len(row) : row[p] = DISK_DARK

\* The dark-before-light pairs of a row.
Inversions(row) ==
  Cardinality({pq \in (1..Len(row)) \X (1..Len(row)) :
                 pq[1] < pq[2] /\ row[pq[1]] = DISK_DARK /\ row[pq[2]] = DISK_LIGHT})

CountOf(row, c) == Cardinality({p \in 1..Len(row) : row[p] = c})

Triangle(k) == (k * (k - 1)) \div 2

EntryPc(a) == IF a = "ltr" THEN "ltr_outer" ELSE "lawn_outer"
ReturnPc(a) == IF a = "ltr" THEN "ltr_ret" ELSE "lawn_ret"

SorterCalled == CallLeftToRight \/ CallLawnmower

\* C1: every Result either sorter returns holds a row for which is_sorted()
\* is true: its first k disks are all light and its last k all dark.
C1_SortersGroup ==
  \A a \in Algs :
    res[a].has => is_sorted(res[a].after) /\ Grouped(res[a].after)

C1_Witness ==
  /\ res["ltr"].has /\ Len(res["ltr"].after) >= 6
  /\ res["lawn"].has /\ Len(res["lawn"].after) >= 6
  /\ Grouped(res["ltr"].after) /\ Grouped(res["lawn"].after)

\* C2: on the alternating row of 2k disks both sorters report the same
\* swap_count(), the row's inversion count k(k-1)/2: 0 for k = 1, 3 for
\* k = 3 and 6 for k = 4.
C2_SwapCounts ==
  \A a \in Algs :
    res[a].has =>
      LET k == HalfLen(res[a].after) IN
      /\ res[a].swap_count = Triangle(k)
      /\ res[a].swap_count = Inversions(disk_state(k))
      /\ k = 1 => res[a].swap_count = 0
      /\ k = 3 => res[a].swap_count = 3
      /\ k = 4 => res[a].swap_count = 6
      /\ \A b \in Algs :
           res[b].has /\ Len(res[b].after) = Len(res[a].after)
             => res[b].swap_count = res[a].swap_count

C2_Witness ==
  /\ res["ltr"].has /\ res["lawn"].has
  /\ Len(res["ltr"].after) = 8 /\ Len(res["lawn"].after) = 8
  /\ res["ltr"].swap_count = 6 /\ res["lawn"].swap_count = 6

\* C3 as claimed: for every k >= 1 the constructed row has 2k disks, is
\* alternating and is not sorted.
C3_Original ==
  [][\A n \in 1..MaxLight :
       Construct(n) =>
         /\ total_count(colors') = 2 * n
         /\ is_alternating(colors')
         /\ ~is_sorted(colors')]_vars

\* C3 as amended: for every k >= 1 the constructed row has 2k disks and is
\* alternating; it is not sorted exactly when k >= 2 (the row L D of k = 1
\* is both alternating and sorted).
C3_Constructed ==
  [][\A n \in 1..MaxLight :
       Construct(n) =>
         /\ total_count(colors') = 2 * n
         /\ is_alternating(colors')
         /\ is_sorted(colors') <=> (n = 1)]_vars

C3_Witness ==
  /\ lastOp = "construct"
  /\ pc = "ready"
  /\ total_count(colors) = 6
  /\ is_alternating(colors)
  /\ ~is_sorted(colors)

\* C4 as claimed: for every k >= 1, calling a sorter on the row a sort has
\* just produced fails at the is_alternating() assertion, with no swap and
\* no Result.
C4_Original ==
  [][(lastOp \in Algs /\ colors = res[lastOp].after /\ SorterCalled) =>
       /\ pc' = "abort"
       /\ failure' = "precondition"
       /\ colors' = colors
       /\ res' = res]_vars

\* C4 as amended: for every k >= 2, calling a sorter on the row a sort has
\* just produced fails at the is_alternating() assertion, with no swap and
\* no Result (for k = 1 the grouped row L D is alternating and the second
\* sort runs).
C4_SecondSortFails ==
  [][(lastOp \in Algs /\ colors = res[lastOp].after /\ HalfLen(colors) >= 2
        /\ SorterCalled) =>
       /\ pc' = "abort"
       /\ failure' = "precondition"
       /\ colors' = colors
       /\ res' = res]_vars

C4_Witness ==
  /\ pc = "abort"
  /\ failure = "precondition"
  /\ lastOp \in Algs
  /\ colors = res[lastOp].after
  /\ HalfLen(colors) >= 2

\* C5: a == b is true exactly when a and b have the same length and the
\* same disk at every index, and a == b agrees with b == a.
C5_StructuralEquality ==
  /\ eqAB # "none" => ((eqAB = "true") <=> (colors = other))
  /\ eqBA # "none" => ((eqBA = "true") <=> (other = colors))
  /\ (eqAB # "none" /\ eqBA # "none") => eqAB = eqBA

\* A step that exchanges a dark disk at index p with the light disk at p + 1.
DarkLightSwap ==
  \E p \in 0..(Len(colors) - 2) :
    /\ get(colors, p) = DISK_DARK
    /\ get(colors, p + 1) = DISK_LIGHT
    /\ colors' = swap(colors, p)

Accounting ==
  /\ swapCount + Inversions(colors) = Triangle(HalfLen(colors))
  /\ CountOf(colors, DISK_LIGHT) = HalfLen(colors)
  /\ CountOf(colors, DISK_DARK) = HalfLen(colors)

C7_SweepOrder ==
  /\ pc = "lawn_inc" => j >= USub(totalCount, i)
  /\ pc = "lawn_bwd" => j >= USub(totalCount, i - 1)

\* C8: each sorter, once called, reaches its return statement.
C8_Terminates ==
  \A a \in Algs : (pc = EntryPc(a)) ~> (pc = ReturnPc(a))

C8_Witness ==
  /\ pc = "lawn_ret"
  /\ HalfLen(colors) >= 3
  /\ swapCount = Triangle(HalfLen(colors))

\* C9: inside the sorters no assertion of get or swap fails, and the
\* unsigned expressions totalCount - i - 1 and totalCount - i are never
\* evaluated with i so large that they wrap.
C9_InBounds ==
  /\ failure \notin {"get", "swap"}
  /\ pc \in SortPcs => failure = "none"
  /\ pc = "ltr_inner" => i + 1 <= totalCount
  /\ pc = "lawn_fwd" => i <= totalCount
  /\ pc = "lawn_inc" => (i + 1) + 1 <= totalCount
  /\ pc = "lawn_bwd" => jBack < totalCount

C9_Witness ==
  /\ pc = "lawn_fwd"
  /\ ~LawnForwardTest
  /\ failure = "none"
  /\ totalCount >= 8

\* C10: a sorter's return leaves the caller's row as the sort left it and
\* equal, disk for disk, to the Result's row (so no longer alternating when
\* k >= 2), and a later swap on the caller's row changes no Result.
C10_InPlaceThenCopy ==
  [][/\ \A a \in Algs :
          pc = ReturnPc(a) =>
            /\ colors' = colors
            /\ res'[a].after = colors'
            /\ HalfLen(colors') >= 2 => ~is_alternating(colors')
     /\ (\E p \in 0..(2 * MaxLight - 1) : CallerSwap(p)) => res' = res]_vars

C10_Witness ==
  /\ lastOp = "swap"
  /\ pc = "ready"
  /\ res["lawn"].has
  /\ Len(res["lawn"].after) = Len(colors)
  /\ res["lawn"].after # colors
  /\ Grouped(res["lawn"].after)

=============================================================================
